---- MODULE Spec2Model ----
(***************************************************************************)
(* Model of src/trade.py: execute(symbol, params, bybit_lev, binance_lev,  *)
(* dry_run) as a sequential state machine.  Every connector call is one    *)
(* step whose outcome (a return value or a raised exception) is chosen by  *)
(* the environment.  `calls` is the trace of connector calls in program    *)
(* order, `log` the trace of print statements.                             *)
(***************************************************************************)
EXTENDS Integers, Sequences, FiniteSets, TLC

\* ------------------------------------------------------------------ bounds
MaxLev == 2
MaxSize == 1
MaxEntry == 1
MaxContracts == 1
MaxPos == 1

\* --------------------------------------------------------------- constants
None == "None"
Symbol == "ALPACA/USDT:USDT"
OtherSymbol == "BTC/USDT:USDT"
BybitOrder == "bybit_order"
BinanceOrder == "binance_order"

\* Exceptions a connector call can raise.  BadRequest is a subclass of
\* ExchangeError; NetworkError is a ccxt error outside ExchangeError;
\* the three BadRequest kinds differ by message text only.
ErrKinds ==
  {"BadRequest:leverage not modified", "BadRequest:not valid", "BadRequest:other",
   "ExchangeError", "NetworkError"}

Outcomes == {"ok"} \cup ErrKinds

IsBadRequest(e) ==
  e \in {"BadRequest:leverage not modified", "BadRequest:not valid", "BadRequest:other"}

IsExchangeError(e) == IsBadRequest(e) \/ e = "ExchangeError"

MsgNotModified(e) == e = "BadRequest:leverage not modified"

MsgNotValid(e) == e = "BadRequest:not valid"

\* ------------------------------------------------------------- arithmetic
\* Quantities are exact fractions <<n, d>> with d > 0.
Qty(n) == <<n, 1>>

QLe(a, b) == a[1] * b[2] <= b[1] * a[2]

QEq(a, b) == a[1] * b[2] = b[1] * a[2]

QMin(a, b) == IF QLe(a, b) THEN a ELSE b

\* Variant: the larger of the two values.
MutIMin(a, b) == IF a <= b THEN b ELSE a

IMin(a, b) == IF a <= b THEN a ELSE b

\* ------------------------------------------------------------------ inputs
Levs == 0 .. MaxLev

\* market(symbol)['limits'] as the venue reports it.
NoLeverageKey == [shape |-> "no_leverage_key", max |-> 0]
LeverageNull == [shape |-> "leverage_null", max |-> 0]
NoMax == [shape |-> "no_max", max |-> 0]
MaxNull == [shape |-> "max_null", max |-> 0]
MaxIs(n) == [shape |-> "max", max |-> n]

Limits == {NoLeverageKey, LeverageNull, NoMax, MaxNull} \cup {MaxIs(n) : n \in Levs}

\* plan_strategy: sl = entry * 0.99, tp = entry * 1.01; prices in ticks of
\* one hundredth of the unit so that both are whole.
Plan(s, k) == [size |-> s, entry |-> 100 * k, sl |-> 99 * k, tp |-> 101 * k]

Plans == {Plan(s, k) : s \in 0 .. MaxSize, k \in 1 .. MaxEntry}

\* os.getenv('USDT_AMOUNT'): unset, a string float() rejects, or a number.
EnvAbsent == [kind |-> "absent", v |-> 0]
EnvGarbage == [kind |-> "garbage", v |-> 0]
EnvNum(n) == [kind |-> "num", v |-> n]

\* One entry of fetch_positions().
Position(s, c, d) == [symbol |-> s, contracts |-> c, side |-> d]

Positions ==
  {Position(s, c, d) : s \in {Symbol, OtherSymbol}, c \in 0 .. MaxContracts,
                       d \in {"long", "short"}}

SeqsUpTo(S, n) == UNION {[1 .. k -> S] : k \in 0 .. n}

PositionLists == SeqsUpTo(Positions, MaxPos)

VARIABLES
  pc, dry_run, bybit_lev, binance_lev, params, by_limits, bn_limits, env_usdt,
  bn_account, lev_by, max_bn, lev_bn, hedge_size, ob1, ob2, current, result,
  raised, calls, log,
  book, usdt_amount, slippage, contracts, plan

vars ==
  <<pc, dry_run, bybit_lev, binance_lev, params, by_limits, bn_limits, env_usdt,
    bn_account, lev_by, max_bn, lev_bn, hedge_size, ob1, ob2, current, result,
    raised, calls, log, book, usdt_amount, slippage, contracts, plan>>

\* What planning works on and produces; execute never touches it.
planning == <<book, usdt_amount, slippage, contracts, plan>>

inputs ==
  <<dry_run, bybit_lev, binance_lev, params, by_limits, bn_limits, env_usdt, bn_account,
    planning>>

\* ------------------------------------------------------------ call records
Call(venue, op, type, side, qty, posSide, price, lev, ok) ==
  [venue |-> venue, op |-> op, type |-> type, side |-> side, qty |-> qty,
   posSide |-> posSide, price |-> price, lev |-> lev, ok |-> ok]

SetLeverageCall(venue, lev, ok) ==
  Call(venue, "set_leverage", "", "", Qty(0), "", 0, lev, ok)

OrderCall(venue, type, side, qty, posSide, price, ok) ==
  Call(venue, "create_order", type, side, qty, posSide, price, 0, ok)

MiscCall(venue, op, ok) == Call(venue, op, "", "", Qty(0), "", 0, 0, ok)

NoRaise == [at |-> "", err |-> ""]

Raise(at, e) == [at |-> at, err |-> e]

NoResult == [returned |-> FALSE, bybit_entry |-> None, binance_entry |-> None]

Return(a, b) == [returned |-> TRUE, bybit_entry |-> a, binance_entry |-> b]

\* ---------------------------------------------------------------- initial
NoPlan == [size |-> 0, entry |-> 0, sl |-> 0, tp |-> 0]

\* The state of an execution before its first statement.
ExecuteIdle(dry, lby, lbn, p, mby, mbn, env, acct) ==
  /\ dry_run = dry
  /\ bybit_lev = lby
  /\ binance_lev = lbn
  /\ params = p
  /\ by_limits = mby
  /\ bn_limits = mbn
  /\ env_usdt = env
  /\ bn_account = acct
  /\ lev_by = 0
  /\ max_bn = 0
  /\ lev_bn = 0
  /\ hedge_size = Qty(0)
  /\ ob1 = None
  /\ ob2 = None
  /\ current = 0
  /\ result = NoResult
  /\ raised = NoRaise
  /\ calls = <<>>
  /\ log = <<>>

Start(dry, lby, lbn, p, mby, mbn, env, acct) ==
  /\ book = <<>>
  /\ usdt_amount = 0
  /\ slippage = 0
  /\ contracts = 0
  /\ plan = NoPlan
  /\ pc = "init"
  /\ ExecuteIdle(dry, lby, lbn, p, mby, mbn, env, acct)

\* Orchestration runs: one leverage request, every account state.
Init ==
  \E dry \in BOOLEAN, mby \in {MaxNull, MaxIs(MaxLev)}, mbn \in {MaxNull, MaxIs(MaxLev)},
     acct \in PositionLists :
    Start(dry, MaxLev, MaxLev, Plan(MaxSize, MaxEntry), mby, mbn, EnvAbsent, acct)

Envs == {EnvAbsent, EnvGarbage} \cup {EnvNum(100 * n) : n \in 0 .. MaxSize}

\* Dry runs over every plan, leverage request, reported limit and budget
\* input, beside the live runs of one plan.
InitDry ==
  \/ \E lby \in Levs, lbn \in Levs, mby \in Limits, mbn \in Limits, p \in Plans, env \in Envs :
       Start(TRUE, lby, lbn, p, mby, mbn, env, <<>>)
  \/ \E acct \in PositionLists :
       Start(FALSE, MaxLev, MaxLev, Plan(MaxSize, MaxEntry), MaxIs(MaxLev), MaxIs(MaxLev),
             EnvAbsent, acct)

\* Budget inputs in half-entry steps, so that budget * leverage / entry also
\* falls between whole contract counts.
SizingEnvs == {EnvAbsent, EnvGarbage} \cup {EnvNum(50 * n) : n \in 0 .. 2 * MaxSize}

\* Sizing runs: live runs over every plan, budget input, hedge-venue leverage
\* request and reported maximum, beside one request on every account state.
InitSize ==
  \/ \E lbn \in Levs, mbn \in {NoMax} \cup {MaxIs(n) : n \in Levs}, p \in Plans,
        env \in SizingEnvs :
       Start(FALSE, MaxLev, lbn, p, NoMax, mbn, env, <<>>)
  \/ \E dry \in BOOLEAN, acct \in PositionLists :
       Start(dry, MaxLev, MaxLev, Plan(MaxSize, MaxEntry), MaxIs(MaxLev), MaxIs(MaxLev),
             EnvAbsent, acct)

\* Leverage runs: every leverage request and every reported limit on a flat
\* hedge account, beside the live runs of one request on every account state.
InitLev ==
  \/ \E dry \in BOOLEAN, lby \in Levs, lbn \in Levs, mby \in Limits, mbn \in Limits :
       Start(dry, lby, lbn, Plan(MaxSize, MaxEntry), mby, mbn, EnvAbsent, <<>>)
  \/ \E acct \in PositionLists :
       Start(FALSE, MaxLev, MaxLev, Plan(MaxSize, MaxEntry), MaxIs(MaxLev), MaxIs(MaxLev),
             EnvAbsent, acct)

\* ------------------------------------- calculate_contracts (lines 66-77)
MaxLevels == 2
MaxPrice == 3
MaxAmount == 2
MaxBudget == 4

\* slippage=0.001, in thousandths
DefaultSlippage == 1

Slippages == {0, DefaultSlippage}

Level(p, a) == [price |-> p, amount |-> a]

Levels == {Level(p, a) : p \in 1 .. MaxPrice, a \in 1 .. MaxAmount}

\* Ask books, best (cheapest) price first.
Books ==
  {b \in SeqsUpTo(Levels, MaxLevels) :
     \A i \in 1 .. (Len(b) - 1) : b[i].price <= b[i + 1].price}

\* usdt_amount * (1 + slippage), in thousandths of the quote unit.
CapMilli(usdt, slip) == usdt * (1000 + slip)

\* The loop of lines 69-76: total_cost in quote units, filled in contracts;
\* the result is the fraction <<n, d>> of contracts before rounding.
RECURSIVE WalkAsks(_, _, _, _)
WalkAsks(asks, cap, total_cost, filled) ==
  IF asks = <<>> THEN <<filled, 1>>
  ELSE LET price == Head(asks).price
           cost == Head(asks).price * Head(asks).amount
       IN IF 1000 * (total_cost + cost) > cap
            THEN <<filled * 1000 * price + (cap - 1000 * total_cost), 1000 * price>>
            ELSE WalkAsks(Tail(asks), cap, total_cost + cost, filled + Head(asks).amount)

\* round(q, 2), in hundredths: the nearest hundredth.  The float that stands
\* for an exact tie lies on either side of it, so a tie rounds either way.
Round2(q) ==
  LET f == (100 * q[1]) \div q[2]
      r == (100 * q[1]) % q[2]
  IN IF 2 * r < q[2] THEN {f}
     ELSE IF 2 * r > q[2] THEN {f + 1}
     ELSE {f, f + 1}

\* What calculate_contracts(book, usdt_amount, slippage) can return, in
\* hundredths.
CalculateContracts(asks, usdt, slip) == Round2(WalkAsks(asks, CapMilli(usdt, slip), 0, 0))

InitSizer ==
  \E b \in Books, u \in 0 .. MaxBudget, s \in Slippages :
    /\ book = b
    /\ usdt_amount = u
    /\ slippage = s
    /\ contracts = 0
    /\ plan = NoPlan
    /\ pc = "sizer"
    /\ ExecuteIdle(FALSE, 0, 0, NoPlan, NoMax, NoMax, EnvAbsent, <<>>)

executing ==
  <<dry_run, bybit_lev, binance_lev, params, by_limits, bn_limits, env_usdt, bn_account,
    lev_by, max_bn, lev_bn, hedge_size, ob1, ob2, current, result, calls, log>>

SizeContracts ==
  /\ pc = "sizer"
  /\ contracts' \in CalculateContracts(book, usdt_amount, slippage)
  /\ pc' = "sized"
  /\ UNCHANGED <<executing, raised, book, usdt_amount, slippage, plan>>

\* plan_strategy (lines 79-85), which sizes with the default slippage:
\* entry = book['asks'][0][0] raises IndexError on an empty book; prices of
\* the plan are in hundredths.
PlanStrategy ==
  /\ pc = "sized"
  /\ slippage = DefaultSlippage
  /\ IF book = <<>>
       THEN /\ pc' = "aborted"
            /\ raised' = Raise("plan", "IndexError")
            /\ UNCHANGED plan
       ELSE /\ pc' = "planned"
            /\ plan' = [size |-> contracts, entry |-> 100 * book[1].price,
                        sl |-> 99 * book[1].price, tp |-> 101 * book[1].price]
            /\ UNCHANGED raised
  /\ UNCHANGED <<executing, book, usdt_amount, slippage, contracts>>

NextSizer == SizeContracts \/ PlanStrategy

SpecSizer == InitSizer /\ [][NextSizer]_vars

\* ------------------------------------------------- init_exchanges (31-51)
\* load_markets() on both venues is outside any try; the hedge-mode switch
\* (a mutating request on the hedge venue) is inside try/except Exception.
InitExchanges ==
  /\ pc = "init"
  /\ \E oLoad \in Outcomes, oDual \in Outcomes :
       IF oLoad # "ok"
         THEN /\ pc' = "aborted"
              /\ raised' = Raise("init", oLoad)
              /\ UNCHANGED <<calls, log>>
         ELSE /\ pc' = "lev_by"
              /\ calls' = Append(calls, MiscCall("binance", "position_side_dual", oDual = "ok"))
              /\ log' = Append(log, IF oDual = "ok" THEN "Binance hedge mode enabled"
                                                  ELSE "Warning: could not enable hedge mode")
              /\ UNCHANGED raised
  /\ UNCHANGED <<inputs, lev_by, max_bn, lev_bn, hedge_size, ob1, ob2, current, result>>

\* ------------------------------------------- Bybit leverage (lines 90-101)
\* m_by['limits'].get('leverage', {}).get('max', leverage): a missing key
\* falls back to the request; a null 'leverage' has no .get and a null 'max'
\* cannot be compared by min().
BybitMaxRaises(limits) == limits.shape \in {"leverage_null", "max_null"}

BybitMax(limits, leverage) == IF limits.shape = "max" THEN limits.max ELSE leverage

\* except ccxt.BadRequest with 'leverage not modified' in the message;
\* everything else is re-raised or never caught.
BybitLeverageCaught(e) == IsBadRequest(e) /\ MsgNotModified(e)

SetBybitLeverage ==
  /\ pc = "lev_by"
  /\ IF BybitMaxRaises(by_limits)
       THEN /\ pc' = "aborted"
            /\ raised' = Raise("lev_by", "TypeError")
            /\ UNCHANGED <<lev_by, calls, log>>
       ELSE /\ lev_by' = IMin(bybit_lev, BybitMax(by_limits, bybit_lev))
            /\ \E o \in Outcomes :
                 /\ calls' = Append(calls, SetLeverageCall("bybit", lev_by', o = "ok"))
                 /\ IF o = "ok"
                      THEN /\ pc' = "lev_bn"
                           /\ log' = Append(log, "Setting Bybit leverage")
                           /\ UNCHANGED raised
                      ELSE IF BybitLeverageCaught(o)
                        THEN /\ pc' = "lev_bn"
                             /\ log' = log \o <<"Setting Bybit leverage", "Bybit leverage already at">>
                             /\ UNCHANGED raised
                        ELSE /\ pc' = "aborted"
                             /\ raised' = Raise("lev_by", o)
                             /\ log' = Append(log, "Setting Bybit leverage")
  /\ UNCHANGED <<inputs, max_bn, lev_bn, hedge_size, ob1, ob2, current, result>>

\* ---------------------------------------- Binance leverage (lines 103-128)
\* limit_bn = m_bn.get('limits', {}).get('leverage') or {}
\* max_bn = limit_bn.get('max') or binance_lev    (None and 0 are both falsy)
BinanceMax(limits, leverage) ==
  IF limits.shape = "max" /\ limits.max # 0 THEN limits.max ELSE leverage

\* Variant: the try without its final `except Exception` clause.
MutBinanceLeverageBranch(e) ==
  IF e = "ok" THEN "ok"
  ELSE IF IsBadRequest(e)
    THEN IF MsgNotModified(e) THEN "already"
         ELSE IF MsgNotValid(e) THEN "retry_max"
         ELSE "error"
    ELSE "uncaught"

\* Which handler of the try at lines 112-128 an outcome reaches: except
\* ccxt.BadRequest by message, then except Exception for everything else
\* ("uncaught" is what an outcome no handler matches would be).
BinanceLeverageBranch(e) ==
  IF e = "ok" THEN "ok"
  ELSE IF IsBadRequest(e)
    THEN IF MsgNotModified(e) THEN "already"
         ELSE IF MsgNotValid(e) THEN "retry_max"
         ELSE "error"
    ELSE "unexpected"

BinanceLeverageLog(branch) ==
  CASE branch = "ok" -> <<>>
    [] branch = "already" -> <<"Binance leverage already at">>
    [] branch = "retry_max" -> <<"Binance leverage not valid, using max">>
    [] branch = "error" -> <<"Error setting Binance leverage">>
    [] branch = "unexpected" -> <<"Unexpected error setting Binance leverage">>
    [] OTHER -> <<>>

SetBinanceLeverage ==
  /\ pc = "lev_bn"
  /\ max_bn' = BinanceMax(bn_limits, binance_lev)
  /\ lev_bn' = IMin(binance_lev, max_bn')
  /\ \E o \in Outcomes :
       /\ calls' = Append(calls, SetLeverageCall("binance", lev_bn', o = "ok"))
       /\ log' = log
                 \o (IF max_bn' < binance_lev THEN <<"Requested Binance leverage > exchange max">>
                                              ELSE <<>>)
                 \o <<"Setting Binance leverage">>
                 \o BinanceLeverageLog(BinanceLeverageBranch(o))
       /\ pc' = CASE BinanceLeverageBranch(o) = "retry_max" -> "lev_bn_retry"
                   [] BinanceLeverageBranch(o) = "uncaught" -> "aborted"
                   [] OTHER -> "sizing"
       /\ raised' = IF BinanceLeverageBranch(o) = "uncaught" THEN Raise("lev_bn", o) ELSE raised
  /\ UNCHANGED <<inputs, lev_by, hedge_size, ob1, ob2, current, result>>

\* except Exception as e2 (line 123): every exception of the retry is caught.
RetryLeverageCaught(e) == e \in ErrKinds

\* Variant: lev_bn = max_bn assigned before the retry instead of after it.
MutAdoptedLeverage(o, lev, max) == max

\* lev_bn = max_bn follows the retry inside the try (lines 121-122), so it
\* is reached only when the retry returned.
AdoptedLeverage(o, lev, max) == IF o = "ok" THEN max ELSE lev

RetryBinanceLeverage ==
  /\ pc = "lev_bn_retry"
  /\ \E o \in Outcomes :
       /\ calls' = Append(calls, SetLeverageCall("binance", max_bn, o = "ok"))
       /\ IF o = "ok"
            THEN /\ lev_bn' = AdoptedLeverage(o, lev_bn, max_bn)
                 /\ pc' = "sizing"
                 /\ UNCHANGED <<log, raised>>
            ELSE IF RetryLeverageCaught(o)
              THEN /\ pc' = "sizing"
                   /\ lev_bn' = AdoptedLeverage(o, lev_bn, max_bn)
                   /\ log' = Append(log, "Failed to set Binance max leverage")
                   /\ UNCHANGED raised
              ELSE /\ pc' = "aborted"
                   /\ raised' = Raise("lev_bn_retry", o)
                   /\ UNCHANGED <<lev_bn, log>>
  /\ UNCHANGED <<inputs, lev_by, max_bn, hedge_size, ob1, ob2, current, result>>

\* ------------------------------------------- hedge sizing (lines 129-145)
\* float(os.getenv('USDT_AMOUNT', size * entry_price)) with a bare except.
UsdtExec(env, size, entry) == IF env.kind = "num" THEN env.v ELSE size * entry

MaxQty(usdt, lev, entry) == <<usdt * lev, entry>>

\* Variant: the clamp to the target size left out.
MutHedgeSize(size, max_qty) == max_qty

HedgeSize(size, max_qty) == QMin(Qty(size), max_qty)

\* Variant: the dry-run test left out.
MutAfterSizing(dry) == "primary"

\* if dry_run: ... return (line 138)
AfterSizing(dry) == IF dry THEN "dryrun" ELSE "primary"

SizeHedge ==
  /\ pc = "sizing"
  /\ hedge_size' = HedgeSize(params.size,
                             MaxQty(UsdtExec(env_usdt, params.size, params.entry),
                                    lev_bn, params.entry))
  /\ log' = Append(log, "Using Binance hedge size")
  /\ pc' = AfterSizing(dry_run)
  /\ UNCHANGED <<inputs, lev_by, max_bn, lev_bn, ob1, ob2, current, result, raised, calls>>

DryRunLog ==
  <<"Dry-run: would OPEN", "Dry-run: ENTRY SL TP", "Dry-run: would SET Bybit SL",
    "Dry-run: would SET Bybit TP", "Dry-run: would SET Binance SL",
    "Dry-run: would SET Binance TP">>

DryRunReturn ==
  /\ pc = "dryrun"
  /\ log' = log \o DryRunLog
  /\ result' = Return(None, None)
  /\ pc' = "done"
  /\ UNCHANGED <<inputs, lev_by, max_bn, lev_bn, hedge_size, ob1, ob2, current, raised, calls>>

\* ------------------------------------------- primary leg (lines 146-152)
\* Variant: the handler logs and falls through instead of re-raising.
MutPrimaryFailurePc(e) == "hedge"

\* except ccxt.ExchangeError: print, raise; anything else propagates as is.
PrimaryFailurePc(e) == "aborted"

PrimaryFailureLog(e) == IF IsExchangeError(e) THEN <<"Bybit buy order failed">> ELSE <<>>

\* Variant: the bracket block placed ahead of the hedge order.
MutAfterPrimary == "by_sl"

\* Control reaches the hedge order (line 154) after the primary order.
AfterPrimary == "hedge"

PlacePrimary ==
  /\ pc = "primary"
  /\ \E o \in Outcomes :
       /\ calls' = Append(calls, Call("bybit", "create_market_buy_order", "market", "buy",
                                      Qty(params.size), "", 0, 0, o = "ok"))
       /\ IF o = "ok"
            THEN /\ ob1' = BybitOrder
                 /\ pc' = AfterPrimary
                 /\ log' = Append(log, "Opening contracts")
                 /\ UNCHANGED raised
            ELSE /\ pc' = PrimaryFailurePc(o)
                 /\ raised' = IF PrimaryFailurePc(o) = "aborted" THEN Raise("primary", o) ELSE raised
                 /\ log' = Append(log, "Opening contracts") \o PrimaryFailureLog(o)
                 /\ UNCHANGED ob1
  /\ UNCHANGED <<inputs, lev_by, max_bn, lev_bn, hedge_size, ob2, current, result>>

\* --------------------------------------------- hedge leg (lines 153-175)
\* The order structure create_order returns is a non-empty dict.
Truthy(ob) == ob # None

\* except ccxt.ExchangeError as e (line 159)
HedgeFailureCaught(e) == IsExchangeError(e)

PlaceHedge ==
  /\ pc = "hedge"
  /\ \E o \in Outcomes :
       /\ calls' = Append(calls, OrderCall("binance", "market", "sell", hedge_size, "SHORT", 0,
                                           o = "ok"))
       /\ IF o = "ok"
            THEN /\ ob2' = BinanceOrder
                 /\ pc' = "by_sl"
                 /\ UNCHANGED <<log, raised>>
            ELSE IF HedgeFailureCaught(o)
              THEN /\ pc' = "fetch_pos"
                   /\ log' = Append(log, "Binance sell order failed")
                   /\ UNCHANGED <<ob2, raised>>
              ELSE /\ pc' = "aborted"
                   /\ raised' = Raise("hedge", o)
                   /\ UNCHANGED <<ob2, log>>
  /\ UNCHANGED <<inputs, lev_by, max_bn, lev_bn, hedge_size, ob1, current, result>>

\* except Exception as e2 (line 173) around the whole recovery.
RecoveryFailureCaught(e) == e \in ErrKinds

\* pos = next((p for p in positions if p.get('symbol') == symbol), None)
\* Variant: a failed recovery goes back to placing the hedge short again.
MutAfterRecoveryFailure == "hedge"

\* The handler sets ob2 = None and falls through to the brackets (lines
\* 173-176): the recovery is not repeated.
AfterRecoveryFailure == "by_sl"

RECURSIVE FirstMatch(_, _)
FirstMatch(positions, sym) ==
  IF positions = <<>> THEN <<>>
  ELSE IF Head(positions).symbol = sym THEN <<Head(positions)>>
  ELSE FirstMatch(Tail(positions), sym)

\* current = float(pos.get('contracts', ...)) if pos else 0.0
Current(positions, sym) ==
  IF FirstMatch(positions, sym) = <<>> THEN 0 ELSE FirstMatch(positions, sym)[1].contracts

\* if current > 0 (line 166)
NeedsClose(c) == c > 0

FetchPositions ==
  /\ pc = "fetch_pos"
  /\ \E o \in Outcomes :
       /\ calls' = Append(calls, MiscCall("binance", "fetch_positions", o = "ok"))
       /\ IF o = "ok"
            THEN /\ current' = Current(bn_account, Symbol)
                 /\ IF NeedsClose(current')
                      THEN /\ pc' = "close"
                           /\ log' = Append(log, "Closing existing long")
                           /\ UNCHANGED ob2
                      ELSE /\ pc' = "by_sl"
                           /\ ob2' = None
                           /\ UNCHANGED log
                 /\ UNCHANGED raised
            ELSE IF RecoveryFailureCaught(o)
              THEN /\ pc' = AfterRecoveryFailure
                   /\ ob2' = None
                   /\ log' = Append(log, "Binance hedge retry failed")
                   /\ UNCHANGED <<current, raised>>
              ELSE /\ pc' = "aborted"
                   /\ raised' = Raise("fetch_pos", o)
                   /\ UNCHANGED <<current, ob2, log>>
  /\ UNCHANGED <<inputs, lev_by, max_bn, lev_bn, hedge_size, ob1, result>>

\* Variant: the unwinding order sent to the primary venue's connector.
MutClosingOrder == OrderCall("bybit", "market", "sell", Qty(current), "BOTH", 0, TRUE)

\* binance.create_order(symbol, 'market', 'sell', current, None,
\*                      {'positionSide': 'BOTH'}) (line 168)
ClosingOrder == OrderCall("binance", "market", "sell", Qty(current), "BOTH", 0, TRUE)

CloseLong ==
  /\ pc = "close"
  /\ \E o \in Outcomes :
       /\ calls' = Append(calls, [ClosingOrder EXCEPT !.ok = (o = "ok")])
       /\ IF o = "ok"
            THEN /\ pc' = "retry"
                 /\ log' = Append(log, "Retrying short")
                 /\ UNCHANGED <<ob2, raised>>
            ELSE IF RecoveryFailureCaught(o)
              THEN /\ pc' = AfterRecoveryFailure
                   /\ ob2' = None
                   /\ log' = Append(log, "Binance hedge retry failed")
                   /\ UNCHANGED raised
              ELSE /\ pc' = "aborted"
                   /\ raised' = Raise("close", o)
                   /\ UNCHANGED <<ob2, log>>
  /\ UNCHANGED <<inputs, lev_by, max_bn, lev_bn, hedge_size, ob1, current, result>>

\* Variant: the retried order's result is not kept.
MutRetriedOrder == None

\* ob2 = binance.create_order(...) (line 170)
RetriedOrder == BinanceOrder

RetryShort ==
  /\ pc = "retry"
  /\ \E o \in Outcomes :
       /\ calls' = Append(calls, OrderCall("binance", "market", "sell", hedge_size, "SHORT", 0,
                                           o = "ok"))
       /\ IF o = "ok"
            THEN /\ pc' = "by_sl"
                 /\ ob2' = RetriedOrder
                 /\ UNCHANGED <<log, raised>>
            ELSE IF RecoveryFailureCaught(o)
              THEN /\ pc' = AfterRecoveryFailure
                   /\ ob2' = None
                   /\ log' = Append(log, "Binance hedge retry failed")
                   /\ UNCHANGED raised
              ELSE /\ pc' = "aborted"
                   /\ raised' = Raise("retry", o)
                   /\ UNCHANGED <<ob2, log>>
  /\ UNCHANGED <<inputs, lev_by, max_bn, lev_bn, hedge_size, ob1, current, result>>

\* ---------------------------------------------- brackets (lines 176-209)
\* except Exception as e around each of the four orders.
BracketFailureCaught(e) == e \in ErrKinds

\* Variant: the hedge-venue brackets placed unconditionally.
MutHedgeBracketsDue(ob) == TRUE

\* if ob2: (line 192)
HedgeBracketsDue(ob) == Truthy(ob)

\* The statement that follows each bracket's try block.
AfterBracket(at, ob) ==
  CASE at = "by_sl" -> "by_tp"
    [] at = "by_tp" -> IF HedgeBracketsDue(ob) THEN "bn_tp" ELSE "skip_bn"
    [] at = "bn_tp" -> "bn_sl"
    [] at = "bn_sl" -> "return"

\* Variant: one try around all four orders, so a failure skips the rest.
MutAfterBracketFailure(at, ob) == "return"

\* A caught bracket failure falls through to the same next statement.
AfterBracketFailure(at, ob) == AfterBracket(at, ob)

PlaceBracket(at, call, pre, placed, failed) ==
  /\ pc = at
  /\ \E o \in Outcomes :
       /\ calls' = Append(calls, [call EXCEPT !.ok = (o = "ok")])
       /\ IF o = "ok"
            THEN /\ pc' = AfterBracket(at, ob2)
                 /\ log' = log \o pre \o <<placed>>
                 /\ UNCHANGED raised
            ELSE IF BracketFailureCaught(o)
              THEN /\ pc' = AfterBracketFailure(at, ob2)
                   /\ log' = log \o pre \o <<failed>>
                   /\ UNCHANGED raised
              ELSE /\ pc' = "aborted"
                   /\ raised' = Raise(at, o)
                   /\ log' = log \o pre
  /\ UNCHANGED <<inputs, lev_by, max_bn, lev_bn, hedge_size, ob1, ob2, current, result>>

\* Variant: the stop-loss order carries the take-profit price.
MutBybitSLOrder == OrderCall("bybit", "STOP_MARKET", "sell", Qty(params.size), "", params.tp, TRUE)

BybitSLOrder == OrderCall("bybit", "STOP_MARKET", "sell", Qty(params.size), "", params.sl, TRUE)

BybitTPOrder ==
  OrderCall("bybit", "TAKE_PROFIT_MARKET", "sell", Qty(params.size), "", params.tp, TRUE)

BinanceTPOrder ==
  OrderCall("binance", "TAKE_PROFIT_MARKET", "buy", hedge_size, "SHORT", params.sl, TRUE)

BinanceSLOrder == OrderCall("binance", "STOP_MARKET", "buy", hedge_size, "SHORT", params.tp, TRUE)

PlaceBybitSL ==
  PlaceBracket("by_sl", BybitSLOrder, <<"Setting SL/TP orders">>, "Bybit SL placed",
               "Bybit SL failed")

PlaceBybitTP == PlaceBracket("by_tp", BybitTPOrder, <<>>, "Bybit TP placed", "Bybit TP failed")

PlaceBinanceTP ==
  PlaceBracket("bn_tp", BinanceTPOrder, <<>>, "Binance TP placed", "Binance TP failed")

PlaceBinanceSL ==
  PlaceBracket("bn_sl", BinanceSLOrder, <<>>, "Binance SL placed", "Binance SL failed")

SkipBinanceBrackets ==
  /\ pc = "skip_bn"
  /\ log' = Append(log, "Skipping Binance SL/TP due to no short position")
  /\ pc' = "return"
  /\ UNCHANGED <<inputs, lev_by, max_bn, lev_bn, hedge_size, ob1, ob2, current, result, raised,
                 calls>>

ReturnResult ==
  /\ pc = "return"
  /\ result' = Return(ob1, ob2)
  /\ pc' = "done"
  /\ UNCHANGED <<inputs, lev_by, max_bn, lev_bn, hedge_size, ob1, ob2, current, raised, calls,
                 log>>

\* ------------------------------------------------------------ specification
Next ==
  \/ InitExchanges
  \/ SetBybitLeverage
  \/ SetBinanceLeverage
  \/ RetryBinanceLeverage
  \/ SizeHedge
  \/ DryRunReturn
  \/ PlacePrimary
  \/ PlaceHedge
  \/ FetchPositions
  \/ CloseLong
  \/ RetryShort
  \/ PlaceBybitSL
  \/ PlaceBybitTP
  \/ PlaceBinanceTP
  \/ PlaceBinanceSL
  \/ SkipBinanceBrackets
  \/ ReturnResult

Spec == Init /\ [][Next]_vars

SpecLev == InitLev /\ [][Next]_vars

SpecDry == InitDry /\ [][Next]_vars

SpecSize == InitSize /\ [][Next]_vars

\* execute is sequential code: once a connector call returns or raises, the
\* next statement runs.
SpecLive == Init /\ [][Next]_vars /\ WF_vars(Next)

\* ------------------------------------------------------ reading the trace
IsPrimaryEntry(c) == c.venue = "bybit" /\ c.op = "create_market_buy_order"

IsHedgeShort(c) ==
  /\ c.venue = "binance" /\ c.op = "create_order"
  /\ c.type = "market" /\ c.side = "sell" /\ c.posSide = "SHORT"

IsClosingOrder(c) ==
  /\ c.venue = "binance" /\ c.op = "create_order"
  /\ c.type = "market" /\ c.side = "sell" /\ c.posSide = "BOTH"

IsBracket(c) == c.op = "create_order" /\ c.type \in {"STOP_MARKET", "TAKE_PROFIT_MARKET"}

IsPositionQuery(c) == c.op = "fetch_positions"

IsSetLeverage(c) == c.op = "set_leverage"

IsOrder(c) == c.op \in {"create_order", "create_market_buy_order"}

Idx == DOMAIN calls

BracketCount(venue, type) ==
  Cardinality({i \in Idx : IsBracket(calls[i]) /\ calls[i].venue = venue /\ calls[i].type = type})

HedgeAccepted == \E i \in Idx : IsHedgeShort(calls[i]) /\ calls[i].ok

HedgeRejected == \E i \in Idx : IsHedgeShort(calls[i]) /\ ~calls[i].ok

Contains(seq, x) == \E i \in DOMAIN seq : seq[i] = x

LeveragePhase == {"lev_by", "lev_bn", "lev_bn_retry"}

BracketPhase == {"by_sl", "by_tp", "bn_tp", "bn_sl"}

\* ------------------------------------------------------------------ claims

\* C1: in every run the primary-venue market buy is attempted before any
\* hedge-venue short, and every bracket order on either venue comes after the
\* primary order and after every hedge short (the retry included).
C1_PrimaryThenHedgeThenBrackets ==
  \A i \in Idx :
    /\ IsHedgeShort(calls[i]) => \E j \in 1 .. (i - 1) : IsPrimaryEntry(calls[j])
    /\ IsBracket(calls[i]) =>
         /\ \E j \in 1 .. (i - 1) : IsPrimaryEntry(calls[j])
         /\ \E j \in 1 .. (i - 1) : IsHedgeShort(calls[j])
         /\ \A k \in Idx : k > i => ~IsHedgeShort(calls[k]) /\ ~IsPrimaryEntry(calls[k])

\* A run that retried the short and then placed brackets on both venues.
C1_Witness ==
  /\ pc = "done"
  /\ Cardinality({i \in Idx : IsHedgeShort(calls[i])}) = 2
  /\ \E i \in Idx : IsBracket(calls[i]) /\ calls[i].venue = "binance"
  /\ \E i \in Idx : IsBracket(calls[i]) /\ calls[i].venue = "bybit"

\* C2: a rejected primary-venue market buy aborts execute with that error:
\* nothing is returned and the rejected order is the last connector call.
C2_PrimaryFailureAborts ==
  \A i \in Idx :
    (IsPrimaryEntry(calls[i]) /\ ~calls[i].ok) =>
      /\ i = Len(calls)
      /\ pc = "aborted"
      /\ raised.at = "primary"
      /\ raised.err \in ErrKinds
      /\ ~result.returned

C2_Witness ==
  /\ pc = "aborted"
  /\ raised = Raise("primary", "ExchangeError")
  /\ IsPrimaryEntry(calls[Len(calls)]) /\ ~calls[Len(calls)].ok

\* The hedge venue reports no exposure at all for the traded symbol.
NoConflictingPosition ==
  \A k \in DOMAIN bn_account : bn_account[k].symbol = Symbol => bn_account[k].contracts = 0

\* C3: primary accepted, hedge short failed, no conflicting position on the
\* hedge venue: execute does not abort, submits no closing order, no second
\* short and no hedge-venue bracket, and returns (primary ref, null).
C3_HedgeFailureSoftFails ==
  (~dry_run /\ ob1 # None /\ HedgeRejected /\ NoConflictingPosition) =>
    /\ pc # "aborted"
    /\ \A i \in Idx : ~IsClosingOrder(calls[i])
    /\ Cardinality({i \in Idx : IsHedgeShort(calls[i])}) = 1
    /\ \A i \in Idx : ~(IsBracket(calls[i]) /\ calls[i].venue = "binance")
    /\ pc = "done" => result = Return(BybitOrder, None)

\* C4: once the primary order is accepted no error of the hedge leg (initial
\* short, position query, closing order, retried short) aborts execute, and
\* the returned primary reference is non-null.
C4_HedgeFailureNeverAborts ==
  ob1 # None =>
    /\ pc # "aborted"
    /\ pc = "done" => result.returned /\ result.bybit_entry # None

C6_DryRunNoMutation ==
  dry_run => \A i \in Idx : ~IsSetLeverage(calls[i]) /\ ~IsOrder(calls[i])

\* C7: a dry run places no order of any kind, and when it returns both entry
\* references of the result are null.
C7_DryRunNoOrders ==
  dry_run =>
    /\ \A i \in Idx : ~IsOrder(calls[i])
    /\ ob1 = None /\ ob2 = None
    /\ pc = "done" => result = Return(None, None)

C7_Witness ==
  /\ dry_run
  /\ pc = "done"
  /\ result.returned
  /\ params.size > 0
  /\ bybit_lev # binance_lev

\* min(requested, reported maximum); the request when no maximum is reported.
ExpectedLeverage(req, limits) == IF limits.shape = "max" THEN IMin(req, limits.max) ELSE req

FirstSetLeverage(venue, i) ==
  /\ IsSetLeverage(calls[i]) /\ calls[i].venue = venue
  /\ \A j \in 1 .. (i - 1) : ~(IsSetLeverage(calls[j]) /\ calls[j].venue = venue)

\* C8: on each venue the first leverage applied is min(requested, reported
\* maximum), and the requested leverage when the maximum is absent or null,
\* in which case computing it does not fail.
C8_FirstLeverageIsMin ==
  /\ \A i \in Idx :
       /\ FirstSetLeverage("bybit", i) => calls[i].lev = ExpectedLeverage(bybit_lev, by_limits)
       /\ FirstSetLeverage("binance", i) => calls[i].lev = ExpectedLeverage(binance_lev, bn_limits)
  /\ by_limits.shape # "max" => ~(pc = "aborted" /\ raised = Raise("lev_by", "TypeError"))
  /\ bn_limits.shape # "max" => ~(pc = "aborted" /\ raised = Raise("lev_bn", "TypeError"))

\* C9: with the hedge leg established, each of the four bracket orders is
\* attempted exactly once whatever the others' outcomes, no bracket failure
\* aborts the run, and the result carries both entry references.
C9_BracketsIndependent ==
  /\ raised.at \notin BracketPhase
  /\ (~dry_run /\ Truthy(ob2) /\ pc \in {"return", "done"}) =>
       /\ BracketCount("bybit", "STOP_MARKET") = 1
       /\ BracketCount("bybit", "TAKE_PROFIT_MARKET") = 1
       /\ BracketCount("binance", "TAKE_PROFIT_MARKET") = 1
       /\ BracketCount("binance", "STOP_MARKET") = 1
       /\ pc = "done" => result = Return(BybitOrder, BinanceOrder)

\* All four brackets were rejected and the run still returned both references.
C9_Witness ==
  /\ pc = "done"
  /\ result = Return(BybitOrder, BinanceOrder)
  /\ Cardinality({i \in Idx : IsBracket(calls[i]) /\ ~calls[i].ok}) = 4

\* C10: a hedge-venue bracket is attempted only after an accepted hedge short
\* (initial or retried); without one there is no hedge-venue bracket.
C10_HedgeBracketsNeedHedge ==
  \A i \in Idx :
    (IsBracket(calls[i]) /\ calls[i].venue = "binance") =>
      \E j \in 1 .. (i - 1) : IsHedgeShort(calls[j]) /\ calls[j].ok

\* A live run whose short and its retry were both rejected returned with the
\* primary brackets placed and none on the hedge venue.
C10_Witness ==
  /\ pc = "done"
  /\ ~HedgeAccepted
  /\ Cardinality({i \in Idx : IsHedgeShort(calls[i])}) = 2
  /\ BracketCount("bybit", "STOP_MARKET") = 1
  /\ BracketCount("binance", "STOP_MARKET") + BracketCount("binance", "TAKE_PROFIT_MARKET") = 0

\* The long exposure the hedge venue reports for the traded symbol (0 if none).
RECURSIVE LongExposure(_, _)
LongExposure(positions, sym) ==
  IF positions = <<>> THEN 0
  ELSE IF Head(positions).symbol = sym /\ Head(positions).side = "long"
            /\ Head(positions).contracts > 0
    THEN Head(positions).contracts
    ELSE LongExposure(Tail(positions), sym)

PositionsReported == \E i \in Idx : IsPositionQuery(calls[i]) /\ calls[i].ok

\* C11: during recovery a closing order is submitted iff the position query
\* reported a non-zero long exposure for the traded symbol; it is for exactly
\* that quantity and precedes the retried short; a short exposure or another
\* symbol's position never triggers it.
C11_CloseOnlyReportedLong ==
  /\ (PositionsReported /\ pc # "close") =>
       ((\E i \in Idx : IsClosingOrder(calls[i])) <=> LongExposure(bn_account, Symbol) > 0)
  /\ \A i \in Idx :
       IsClosingOrder(calls[i]) =>
         /\ \E j \in 1 .. (i - 1) : IsPositionQuery(calls[j]) /\ calls[j].ok
         /\ LongExposure(bn_account, Symbol) > 0
         /\ calls[i].qty = Qty(LongExposure(bn_account, Symbol))
         /\ Cardinality({j \in 1 .. (i - 1) : IsHedgeShort(calls[j])}) = 1
  /\ \A j \in Idx :
       (IsHedgeShort(calls[j]) /\ \E k \in 1 .. (j - 1) : IsHedgeShort(calls[k])) =>
         \E i \in 1 .. (j - 1) : IsClosingOrder(calls[i]) /\ calls[i].ok

\* C12: a live run that returns has the accepted primary order as its primary
\* reference, and a non-null hedge reference iff a hedge short (the initial
\* one or the retry) was accepted.
C12_ResultReferences ==
  (~dry_run /\ pc = "done") =>
    /\ result.returned
    /\ result.bybit_entry = BybitOrder
    /\ \E i \in Idx : IsPrimaryEntry(calls[i]) /\ calls[i].ok
    /\ (result.binance_entry # None) <=> HedgeAccepted

\* The initial short was rejected, the retry after closing was accepted and
\* the run returned a hedge reference.
C12_Witness ==
  /\ ~dry_run /\ pc = "done"
  /\ result.binance_entry # None
  /\ \E i \in Idx : IsClosingOrder(calls[i]) /\ calls[i].ok
  /\ HedgeRejected

\* C13: the primary leg is never unwound: after the primary entry the only
\* orders on the primary venue are the stop-loss and the take-profit bracket;
\* no market order on the primary venue other than the entry is ever sent.
C13_PrimaryNeverUnwound ==
  /\ Cardinality({i \in Idx : IsPrimaryEntry(calls[i])}) <= 1
  /\ \A i \in Idx :
       (calls[i].venue = "bybit" /\ IsOrder(calls[i]) /\ ~IsPrimaryEntry(calls[i])) =>
         /\ IsBracket(calls[i])
         /\ calls[i].type # "market"
         /\ \E j \in 1 .. (i - 1) : IsPrimaryEntry(calls[j]) /\ calls[j].ok

\* The hedge was abandoned after a failed recovery and the run returned with
\* only the entry and the two brackets on the primary venue.
C13_Witness ==
  /\ pc = "done"
  /\ ~HedgeAccepted
  /\ \E i \in Idx : IsClosingOrder(calls[i])
  /\ Cardinality({i \in Idx : calls[i].venue = "bybit" /\ IsOrder(calls[i])}) = 3

\* The budget of the claim: the numeric budget input, else size * entry.
Budget == IF env_usdt.kind = "num" THEN env_usdt.v ELSE params.size * params.entry

UsesHedgeSize(c) == IsHedgeShort(c) \/ (IsBracket(c) /\ c.venue = "binance")

\* min(size, budget * leverage / entry) as a fraction over entry.
ExpectedHedgeSize ==
  <<IF params.size * params.entry <= Budget * lev_bn THEN params.size * params.entry
                                                      ELSE Budget * lev_bn,
    params.entry>>

\* C14: the hedge size sent to the hedge venue (entry, retry and brackets)
\* equals min(targetSize, budget * leverage / entry) with budget falling back
\* to size * entry; it is never negative and never above the primary size.
C14_HedgeSizeIsClampedBudget ==
  \A i \in Idx :
    UsesHedgeSize(calls[i]) =>
      /\ calls[i].qty = hedge_size
      /\ calls[i].qty[2] > 0
      /\ calls[i].qty[1] * ExpectedHedgeSize[2] = ExpectedHedgeSize[1] * calls[i].qty[2]
      /\ calls[i].qty[1] >= 0
      /\ calls[i].qty[1] <= params.size * calls[i].qty[2]

\* A hedge short for half a contract: the budget, not the target, binds.
C14_Witness ==
  \E i \in Idx :
    /\ IsHedgeShort(calls[i]) /\ calls[i].ok
    /\ 2 * calls[i].qty[1] = calls[i].qty[2]
    /\ params.size > 0

\* What `h` hundredths of a contract cost, walking the asks in order, in
\* hundredths of the quote unit.
RECURSIVE WalkCost(_, _)
WalkCost(asks, h) ==
  IF h = 0 \/ asks = <<>> THEN 0
  ELSE LET take == IF h <= 100 * Head(asks).amount THEN h ELSE 100 * Head(asks).amount
       IN take * Head(asks).price + WalkCost(Tail(asks), h - take)

RECURSIVE Depth(_)
Depth(asks) == IF asks = <<>> THEN 0 ELSE Head(asks).amount + Depth(Tail(asks))

\* C15: the rounded quantity calculate_contracts returns can be bought by
\* walking the asks in order for at most B * (1 + s).
C15_SizedWithinBudget ==
  pc \in {"sized", "planned"} =>
    /\ contracts <= 100 * Depth(book)
    /\ 10 * WalkCost(book, contracts) <= CapMilli(usdt_amount, slippage)

\* The lines execute prints in the handlers that recover from an error.
FailureTags ==
  {"Warning: could not enable hedge mode", "Bybit leverage already at",
   "Binance leverage already at", "Binance leverage not valid, using max",
   "Error setting Binance leverage", "Unexpected error setting Binance leverage",
   "Failed to set Binance max leverage", "Binance sell order failed",
   "Binance hedge retry failed", "Bybit SL failed", "Bybit TP failed", "Binance TP failed",
   "Binance SL failed"}

FailureLogCount == Cardinality({k \in DOMAIN log : log[k] \in FailureTags})

\* A connector call's error left execute (it was not recovered from).
AbortedByCall == pc = "aborted" /\ raised.err \in ErrKinds /\ raised.at # "init"

\* Failed connector calls whose error was caught and recovered from.
CaughtCallCount ==
  Cardinality({i \in Idx : ~calls[i].ok}) - (IF AbortedByCall THEN 1 ELSE 0)

PastSizing ==
  \/ pc \in {"dryrun", "primary", "hedge", "fetch_pos", "close", "retry", "by_sl", "by_tp",
             "bn_tp", "bn_sl", "skip_bn", "return", "done"}
  \/ pc = "aborted" /\ raised.at \in {"primary", "hedge"}

\* The bare except of lines 131-134 caught float() failing on USDT_AMOUNT.
CaughtParseCount == IF env_usdt.kind = "garbage" /\ PastSizing THEN 1 ELSE 0

\* C16: no failure is silent: at every point of a run each error caught and
\* recovered from so far (leverage rejection, budget-input parse failure,
\* hedge order failure, recovery failure, bracket failure) has its log line.
C16_EveryCaughtErrorLogged == FailureLogCount = CaughtCallCount + CaughtParseCount

\* The same count over connector calls alone.
CaughtCallsLogged == FailureLogCount = CaughtCallCount

BinanceLeverageCalls == {i \in Idx : IsSetLeverage(calls[i]) /\ calls[i].venue = "binance"}

FirstIn(S) == CHOOSE i \in S : \A j \in S : i <= j

LastIn(S) == CHOOSE i \in S : \A j \in S : j <= i

\* Hedge sizing ran with leverage L: lev_bn is L and the hedge size is
\* min(size, budget * L / entry).
SizedWithLeverage(L) ==
  /\ lev_bn = L
  /\ hedge_size[1] * params.entry
       = (IF params.size * params.entry <= Budget * L THEN params.size * params.entry
                                                     ELSE Budget * L) * hedge_size[2]

\* C17 as stated: in every negotiation outcome hedge sizing uses the value of
\* the last set-leverage attempt made on the hedge venue.
C17_SizingUsesLastAttempt ==
  PastSizing => SizedWithLeverage(calls[LastIn(BinanceLeverageCalls)].lev)

\* C17 amended: hedge sizing uses the value of the retry at the reported
\* maximum when that retry was accepted, and in every other outcome (a failed
\* retry included) the value of the first attempt.
C17_SizingUsesAdoptedAttempt ==
  PastSizing =>
    SizedWithLeverage(IF Cardinality(BinanceLeverageCalls) = 2
                           /\ calls[LastIn(BinanceLeverageCalls)].ok
                        THEN calls[LastIn(BinanceLeverageCalls)].lev
                        ELSE calls[FirstIn(BinanceLeverageCalls)].lev)

\* Invalid-then-retry-fails with a maximum above the request, in a run that
\* went on to return.
C17_Witness ==
  /\ pc = "done"
  /\ Cardinality(BinanceLeverageCalls) = 2
  /\ ~calls[LastIn(BinanceLeverageCalls)].ok
  /\ calls[LastIn(BinanceLeverageCalls)].lev > calls[FirstIn(BinanceLeverageCalls)].lev

\* The first attempt was rejected as invalid and the retry at the reported
\* maximum was accepted.
RetryAccepted ==
  /\ Cardinality(BinanceLeverageCalls) = 2
  /\ calls[LastIn(BinanceLeverageCalls)].ok

\* C18 as stated: the leverage hedge sizing uses never exceeds the leverage
\* requested for the hedge venue.
C18_NeverAboveRequested ==
  PastSizing => lev_bn <= binance_lev

\* C18 amended: the leverage hedge sizing uses exceeds the request only after
\* an accepted retry, and then it is the value of that retry (the venue's
\* maximum); in every other outcome it is at most the request.
C18_AboveRequestedOnlyByRetry ==
  PastSizing =>
    /\ SizedWithLeverage(lev_bn)
    /\ IF RetryAccepted
         THEN lev_bn = calls[LastIn(BinanceLeverageCalls)].lev /\ lev_bn = max_bn
         ELSE lev_bn <= binance_lev

\* A run that returned after an accepted retry at a maximum above the request.
C18_Witness ==
  /\ pc = "done"
  /\ RetryAccepted
  /\ lev_bn > binance_lev

CountCalls(P(_)) == Cardinality({i \in Idx : P(calls[i])})

IsBybitSetLeverage(c) == IsSetLeverage(c) /\ c.venue = "bybit"

\* The statements of execute in program order, and the phase each belongs to.
PcOrder ==
  <<"init", "lev_by", "lev_bn", "lev_bn_retry", "sizing", "dryrun", "primary", "hedge",
    "fetch_pos", "close", "retry", "by_sl", "by_tp", "bn_tp", "bn_sl", "skip_bn", "return",
    "done", "aborted">>

PcRank(p) == CHOOSE i \in DOMAIN PcOrder : PcOrder[i] = p

PhaseOf(p) ==
  CASE p \in {"init", "lev_by", "lev_bn", "lev_bn_retry", "sizing", "dryrun"} -> 1
    [] p = "primary" -> 2
    [] p \in {"hedge", "fetch_pos", "close", "retry"} -> 3
    [] p \in {"by_sl", "by_tp", "bn_tp", "bn_sl", "skip_bn", "return"} -> 4
    [] p \in {"done", "aborted"} -> 5

Terminated == pc \in {"done", "aborted"}

\* Every kind of connector call within its bound.
CallsBounded ==
  /\ CountCalls(IsPrimaryEntry) <= 1
  /\ CountCalls(IsHedgeShort) <= 2
  /\ CountCalls(IsClosingOrder) <= 1
  /\ \A v \in {"bybit", "binance"}, t \in {"STOP_MARKET", "TAKE_PROFIT_MARKET"} :
       BracketCount(v, t) <= 1
  /\ CountCalls(IsBybitSetLeverage) <= 1
  /\ (PhaseOf(pc) \in 2 .. 4 \/ pc = "done") => CountCalls(IsBybitSetLeverage) = 1
  /\ Cardinality(BinanceLeverageCalls) <= 2

\* C19: every step moves execute to a later statement and never to an earlier
\* phase (NegotiateLeverage, PlacePrimary, PlaceHedge, PlaceBrackets, Done);
\* the primary entry is submitted at most once, the hedge short at most twice,
\* the closing order at most once, each of the four brackets at most once,
\* set-leverage once on the primary venue and at most twice on the hedge
\* venue; and every run in which each connector call returns or raises ends
\* returned or aborted.
C19_ForwardBoundedTerminating ==
  /\ []CallsBounded
  /\ [][PcRank(pc') > PcRank(pc) /\ PhaseOf(pc') >= PhaseOf(pc)]_vars
  /\ <>Terminated

\* A run that used every retry the code has: two leverage attempts on the
\* hedge venue, a closing order and two hedge shorts, and then returned.
C19_Witness ==
  /\ pc = "done"
  /\ CountCalls(IsHedgeShort) = 2
  /\ CountCalls(IsClosingOrder) = 1
  /\ Cardinality(BinanceLeverageCalls) = 2
  /\ CountCalls(IsBybitSetLeverage) = 1

IsBybitStopLoss(c) ==
  /\ c.venue = "bybit" /\ c.op = "create_order" /\ c.type = "STOP_MARKET"
  /\ c.side = "sell" /\ c.qty = Qty(params.size) /\ c.price = params.sl

IsBybitTakeProfit(c) ==
  /\ c.venue = "bybit" /\ c.op = "create_order" /\ c.type = "TAKE_PROFIT_MARKET"
  /\ c.side = "sell" /\ c.qty = Qty(params.size) /\ c.price = params.tp

\* C20: once the primary order succeeded and the primary-venue brackets are
\* behind the run, exactly one stop-loss at the plan's stop-loss price and
\* exactly one take-profit at the plan's take-profit price, each for the
\* primary size, have been attempted on the primary venue, whatever became of
\* the hedge leg; none is attempted before the bracket phase.
C20_PrimaryBracketsOnce ==
  ob1 # None =>
    /\ pc \in {"bn_tp", "bn_sl", "skip_bn", "return", "done"} =>
         /\ BracketCount("bybit", "STOP_MARKET") = 1 /\ CountCalls(IsBybitStopLoss) = 1
         /\ BracketCount("bybit", "TAKE_PROFIT_MARKET") = 1 /\ CountCalls(IsBybitTakeProfit) = 1
    /\ pc = "by_tp" =>
         /\ BracketCount("bybit", "STOP_MARKET") = 1 /\ CountCalls(IsBybitStopLoss) = 1
         /\ BracketCount("bybit", "TAKE_PROFIT_MARKET") = 0
    /\ pc \in {"hedge", "fetch_pos", "close", "retry", "by_sl"} =>
         BracketCount("bybit", "STOP_MARKET") + BracketCount("bybit", "TAKE_PROFIT_MARKET") = 0

\* The hedge was abandoned after a failed retry, the stop-loss attempt was
\* rejected, and the take-profit was still attempted before returning.
C20_Witness ==
  /\ pc = "done"
  /\ ob1 # None /\ ob2 = None
  /\ CountCalls(IsHedgeShort) = 2
  /\ \E i \in Idx : IsBybitStopLoss(calls[i]) /\ ~calls[i].ok
  /\ \E i \in Idx : IsBybitTakeProfit(calls[i]) /\ calls[i].ok

====
